---------------------------- MODULE Spec2Model ----------------------------
(***************************************************************************)
(* A model of the emoji bot of src/src/discord_emoji.py:                   *)
(*   - EmojiPromptModal.sanitize_emoji_name (the name sanitizer),          *)
(*   - get_static_emoji_files / search_static_emojis (the asset listing),  *)
(*   - EmojiPromptModal.on_submit and StaticEmojiSelect.callback (the two  *)
(*     emoji-provisioning workflows).                                      *)
(* A Python str is a sequence of one-character strings.  The character     *)
(* "KELVIN" stands for U+212A (KELVIN SIGN), one of the two non-ASCII code *)
(* points whose str.lower() is an ASCII letter.                            *)
(***************************************************************************)
EXTENDS Integers, Sequences, FiniteSets, TLC

VARIABLES
    \* sanitize_emoji_name, one call followed statement by statement
    name,            \* the raw name passed in
    existing_names,  \* {emoji.name for emoji in guild.emojis}
    sanitized,       \* local `sanitized`
    original_name,   \* local `original_name`
    counter,         \* local `counter`
    pc,              \* "start" | "loop" | "done"
    first_result,    \* <<s>>: an earlier call with the same arguments returned s
    \* the static asset store and the module's view of it
    static_dirs,     \* folder -> whether it exists, its entries in directory order
    STATIC_FOLDER,   \* the module global STATIC_FOLDER
    files_returned,  \* <<l>>: the last get_static_emoji_files() returned l
    prev_returned,   \* <<l>>: the call before that returned l
    search_returned, \* <<r>>: the last search_static_emojis call, query and result
    \* the guild and the workflow runs (on_submit and callback invocations)
    guild_emojis,    \* guild.emojis: the custom emojis of the server
    channels,        \* the guild's channels and the bot's send permission in them
    runs,            \* run -> the locals of one invocation of a handler
    \* the bot and its automatic command syncs
    GUILD_ID,        \* the module constant GUILD_ID, from the environment
    guilds,          \* bot.guilds: the guilds the bot is in, in order
    synced_guilds,   \* bot.synced_guilds
    sync_count,      \* guild -> how many tree.sync(guild=...) calls have succeeded
    handlers         \* event handler -> its position, the guild it syncs, those left

sanVars == <<name, existing_names, sanitized, original_name, counter, pc, first_result>>
fsVars == <<static_dirs, STATIC_FOLDER, files_returned, prev_returned, search_returned>>
wfVars == <<guild_emojis, channels, runs>>
botVars == <<GUILD_ID, guilds, synced_guilds, sync_count, handlers>>
vars == <<sanVars, fsVars, wfVars, botVars>>

---------------------------------------------------------------------------
(* Bounds of the model                                                     *)

\* longest tail of arbitrary characters appended to a raw name
MaxTail == 2
\* how many of the first candidates base, base_1, ... may already be taken
MaxTaken == 10
\* the uniqueness loop is followed up to this value of `counter`
MaxCounter == 12
\* most text channels of the guild
MaxChannels == 2

---------------------------------------------------------------------------
(* Python str operations used by the code                                  *)

NoName == <<>>

Min(a, b) == IF a <= b THEN a ELSE b

\* s[:n]
Take(s, n) == SubSeq(s, 1, Min(n, Len(s)))

\* n copies of the character c
RECURSIVE Repeat(_, _)
Repeat(c, n) == IF n = 0 THEN <<>> ELSE <<c>> \o Repeat(c, n - 1)

\* concatenation of a sequence of strings
RECURSIVE Flatten(_)
Flatten(ss) == IF ss = <<>> THEN <<>> ELSE Head(ss) \o Flatten(Tail(ss))

LowerAlphabet ==
    <<"a", "b", "c", "d", "e", "f", "g", "h", "i", "j", "k", "l", "m",
      "n", "o", "p", "q", "r", "s", "t", "u", "v", "w", "x", "y", "z">>
UpperAlphabet ==
    <<"A", "B", "C", "D", "E", "F", "G", "H", "I", "J", "K", "L", "M",
      "N", "O", "P", "Q", "R", "S", "T", "U", "V", "W", "X", "Y", "Z">>

LowerLetters == {LowerAlphabet[i] : i \in 1..26}
UpperLetters == {UpperAlphabet[i] : i \in 1..26}
Digits == {"0", "1", "2", "3", "4", "5", "6", "7", "8", "9"}

\* str.lower() of one character: a string, since lower-casing may change the
\* number of code points
LowerChar(c) ==
    IF c \in UpperLetters
    THEN <<LowerAlphabet[CHOOSE i \in 1..26 : UpperAlphabet[i] = c]>>
    ELSE IF c = "KELVIN" THEN <<"k">>
    ELSE <<c>>

\* str.lower()
Lower(s) == Flatten([i \in 1..Len(s) |-> LowerChar(s[i])])

\* the character class [a-zA-Z0-9_]
IsWordChar(c) == c \in LowerLetters \cup UpperLetters \cup Digits \cup {"_"}

\* re.sub(r"[^a-zA-Z0-9_]", "", s)
ReSubNonWord(s) == SelectSeq(s, IsWordChar)

\* s.rstrip("_")
RECURSIVE RStrip(_)
RStrip(s) ==
    IF s # <<>> /\ s[Len(s)] = "_" THEN RStrip(SubSeq(s, 1, Len(s) - 1)) ELSE s

\* s.lstrip("_")
RECURSIVE LStrip(_)
LStrip(s) == IF s # <<>> /\ Head(s) = "_" THEN LStrip(Tail(s)) ELSE s

\* s.strip("_")
Strip(s) == LStrip(RStrip(s))

DigitChar(d) ==
    CASE d = 0 -> "0" [] d = 1 -> "1" [] d = 2 -> "2" [] d = 3 -> "3"
      [] d = 4 -> "4" [] d = 5 -> "5" [] d = 6 -> "6" [] d = 7 -> "7"
      [] d = 8 -> "8" [] d = 9 -> "9"

\* f"{n}" for a natural number n
RECURSIVE Str(_)
Str(n) == IF n < 10 THEN <<DigitChar(n)>> ELSE Str(n \div 10) \o <<DigitChar(n % 10)>>

---------------------------------------------------------------------------
(* EmojiPromptModal.sanitize_emoji_name                                    *)

MaxNameLen == 32
MinNameLen == 2

FallbackName == <<"c", "u", "s", "t", "o", "m", "_", "e", "m", "o", "j", "i">>

\* lines 269-270: the raw name lower-cased, filtered, underscore-trimmed
Cleaned(raw) == Strip(ReSubNonWord(Lower(raw)))

\* mutant: the cut at 32 characters leaves a trailing "_" in place
Limited_NoRStrip(s) ==
    IF s = <<>> \/ Len(s) < MinNameLen THEN FallbackName
    ELSE IF Len(s) > MaxNameLen THEN Take(s, MaxNameLen)
    ELSE s

\* mutant: a one-character name is accepted
Limited_MinOne(s) ==
    IF s = <<>> THEN FallbackName
    ELSE IF Len(s) > MaxNameLen THEN RStrip(Take(s, MaxNameLen))
    ELSE s

\* mutant: the cut keeps one character less
Limited_CutShort(s) ==
    IF s = <<>> \/ Len(s) < MinNameLen THEN FallbackName
    ELSE IF Len(s) > MaxNameLen THEN RStrip(Take(s, MaxNameLen - 1))
    ELSE s

\* lines 273-276: fallback and truncation
Limited(s) ==
    IF s = <<>> \/ Len(s) < MinNameLen THEN FallbackName
    ELSE IF Len(s) > MaxNameLen THEN RStrip(Take(s, MaxNameLen))
    ELSE s

\* lines 269-276: the base name, before the uniqueness loop
BaseName(raw) == Limited(Cleaned(raw))

\* mutant: the suffix is one ahead of the counter
Candidate_SkipsOne(original, n) ==
    LET appended == original \o <<"_">> \o Str(n + 1)
    IN  IF Len(appended) > MaxNameLen THEN RStrip(Take(appended, MaxNameLen))
        ELSE appended

\* mutant: the suffix is appended without the "_"
Candidate_NoUnderscore(original, n) ==
    LET appended == original \o Str(n)
    IN  IF Len(appended) > MaxNameLen THEN RStrip(Take(appended, MaxNameLen))
        ELSE appended

\* lines 283, 285-286: the next candidate of the uniqueness loop
Candidate(original, n) ==
    LET appended == original \o <<"_">> \o Str(n)
    IN  IF Len(appended) > MaxNameLen THEN RStrip(Take(appended, MaxNameLen))
        ELSE appended

\* lines 269-281: everything before the while loop
SanitizeStart ==
    /\ pc = "start"
    /\ sanitized' = BaseName(name)
    /\ original_name' = BaseName(name)
    /\ counter' = 1
    /\ pc' = "loop"
    /\ UNCHANGED <<name, existing_names, first_result, fsVars, wfVars, botVars>>

\* lines 282-286: one iteration of `while sanitized in existing_names`
SanitizeLoop ==
    /\ pc = "loop"
    /\ sanitized \in existing_names
    /\ counter <= MaxCounter
    /\ sanitized' = Candidate(original_name, counter)
    /\ counter' = counter + 1
    /\ UNCHANGED <<name, existing_names, original_name, pc, first_result, fsVars, wfVars, botVars>>

\* mutant: the returned name is recorded among the existing names
NamesAfterCall_AddsReturned(existing, returned) == existing \cup {returned}

\* lines 279-288: existing_names is a local set built from guild.emojis and
\* only read; the guild's emoji names after the call are those before it
NamesAfterCall(existing, returned) == existing

\* lines 282, 288: the loop condition is false, the name is returned
SanitizeReturn ==
    /\ pc = "loop"
    /\ sanitized \notin existing_names
    /\ pc' = "done"
    /\ existing_names' = NamesAfterCall(existing_names, sanitized)
    /\ UNCHANGED <<name, sanitized, original_name, counter, first_result, fsVars,
                   wfVars, botVars>>

\* the caller calls sanitize_emoji_name once more with the same raw name and
\* the same guild
SanitizeAgain ==
    /\ pc = "done"
    /\ first_result = <<>>
    /\ first_result' = <<sanitized>>
    /\ sanitized' = NoName
    /\ original_name' = NoName
    /\ counter' = 0
    /\ pc' = "start"
    /\ UNCHANGED <<name, existing_names, fsVars, wfVars, botVars>>

---------------------------------------------------------------------------
(* Inputs of sanitize_emoji_name                                           *)

Chars == {"x", "A", "_", "-", "KELVIN"}

RECURSIVE SeqsUpTo(_, _)
SeqsUpTo(S, n) ==
    IF n = 0 THEN {<<>>}
    ELSE LET shorter == SeqsUpTo(S, n - 1)
         IN  shorter \cup {s \o <<c>> : s \in {t \in shorter : Len(t) = n - 1}, c \in S}

Heads == {<<>>, <<"_">>, <<"KELVIN">>}

\* lengths of the run of "a" in the middle of a raw name: none, around the
\* length limit, and the 50 of the documented example
PadLens == {0, 50} \cup ((MaxNameLen - 3)..(MaxNameLen + 1))

RawNames ==
    {h \o Repeat("a", n) \o t : h \in Heads, n \in PadLens, t \in SeqsUpTo(Chars, MaxTail)}

\* how many of the first names the loop tries are taken
TakenCounts == (0..2) \cup {MaxTaken}

\* the k-th name the uniqueness loop tries for a raw name
Tried(raw, k) == IF k = 0 THEN BaseName(raw) ELSE Candidate(BaseName(raw), k)

\* names taken whether or not the loop tries them: the cleaned raw name
\* itself and the same with "_1" appended
OtherNames(raw) ==
    {{}, {Cleaned(raw)}, {Cleaned(raw), Cleaned(raw) \o <<"_", "1">>}}

\* the guild's emoji names: the first k names the loop would try, possibly
\* the one after the next as well, and the names of OtherNames
ExistingSets(raw) ==
    UNION {{{Tried(raw, j) : j \in 0..(k - 1)} \cup gap \cup other :
                gap \in {{}, {Tried(raw, k + 1)}}, other \in OtherNames(raw)} :
           k \in TakenCounts}

\* no call of sanitize_emoji_name is followed
SanitizerIdle ==
    /\ name = NoName
    /\ existing_names = {}
    /\ sanitized = NoName
    /\ original_name = NoName
    /\ counter = 0
    /\ pc = "idle"
    /\ first_result = <<>>

\* the asset store is not looked at
StoreIdle ==
    /\ static_dirs = <<>>
    /\ STATIC_FOLDER = "module_static"
    /\ files_returned = <<>>
    /\ prev_returned = <<>>
    /\ search_returned = <<>>

\* no handler runs
HandlersIdle ==
    /\ guild_emojis = {}
    /\ channels = <<>>
    /\ runs = <<>>

\* the bot's start-up and gateway events are not followed
BotIdle ==
    /\ GUILD_ID = ""
    /\ guilds = <<>>
    /\ synced_guilds = {}
    /\ sync_count = <<>>
    /\ handlers = <<>>

Init ==
    /\ name \in RawNames
    /\ existing_names \in ExistingSets(name)
    /\ sanitized = NoName
    /\ original_name = NoName
    /\ counter = 0
    /\ pc = "start"
    /\ first_result = <<>>
    /\ StoreIdle
    /\ HandlersIdle
    /\ BotIdle

Next == SanitizeStart \/ SanitizeLoop \/ SanitizeReturn \/ SanitizeAgain

Spec == Init /\ [][Next]_vars

\* the calls on names made of "a" only, of every length of PadLens
InitPlain ==
    /\ Init
    /\ name \in {Repeat("a", n) : n \in PadLens}

\* the call runs on one thread and is never suspended: a statement that can
\* execute does execute
SpecFair == InitPlain /\ [][Next]_vars /\ WF_vars(Next)

---------------------------------------------------------------------------
(* get_static_emoji_files and search_static_emojis                         *)

\* a folder that does not exist, and one that holds the given entries
Absent == [exists |-> FALSE, entries |-> <<>>]
Holding(entries) == [exists |-> TRUE, entries |-> entries]

\* no call was made since the store last changed
Unknown == <<>>
NoFolder == "none"

\* the code points of the characters, in increasing order
CodeOrder ==
    <<" ", "-", ".", "0", "1", "2", "3", "4", "5", "6", "7", "8", "9">>
    \o UpperAlphabet \o <<"_">> \o LowerAlphabet \o <<"KELVIN">>

\* ord(c)
Ord(c) == CHOOSE i \in 1..Len(CodeOrder) : CodeOrder[i] = c

\* a < b for str: lexicographic by code point
RECURSIVE StrLess(_, _)
StrLess(a, b) ==
    IF b = <<>> THEN FALSE
    ELSE IF a = <<>> THEN TRUE
    ELSE IF Head(a) = Head(b) THEN StrLess(Tail(a), Tail(b))
    ELSE Ord(Head(a)) < Ord(Head(b))

\* one step of sorted(): x put in its place in an ascending list
RECURSIVE InsertSorted(_, _)
InsertSorted(x, l) ==
    IF l = <<>> THEN <<x>>
    ELSE IF StrLess(Head(l), x) THEN <<Head(l)>> \o InsertSorted(x, Tail(l))
    ELSE <<x>> \o l

\* sorted(l)
RECURSIVE Sorted(_)
Sorted(l) == IF l = <<>> THEN <<>> ELSE InsertSorted(Head(l), Sorted(Tail(l)))

\* s.endswith(suffix)
EndsWith(s, suffix) ==
    /\ Len(s) >= Len(suffix)
    /\ SubSeq(s, Len(s) - Len(suffix) + 1, Len(s)) = suffix

\* line 467: patterns = ["*.png", "*.jpg", "*.jpeg", "*.gif"], each given by
\* the text after its "*"
patterns ==
    << <<".", "p", "n", "g">>, <<".", "j", "p", "g">>,
       <<".", "j", "p", "e", "g">>, <<".", "g", "i", "f">> >>

\* glob.glob(os.path.join(folder, "*" + ext)): the entries of the folder, in
\* directory order, that end with ext; an entry whose name begins with "."
\* is matched only by a pattern that begins with "."
Glob(entries, ext) ==
    SelectSeq(entries, LAMBDA e : EndsWith(e, ext) /\ Head(e) # ".")

\* mutant: the list is returned in the order the patterns found it
Listing_Unsorted(entries) ==
    Flatten([i \in 1..Len(patterns) |-> Glob(entries, patterns[i])])

\* mutant: the "*.jpeg" pattern is left out
Listing_NoJpeg(entries) ==
    Sorted(Flatten([i \in 1..3 |-> Glob(entries, patterns[IF i = 3 THEN 4 ELSE i])]))

\* lines 467-479: the names matched by the patterns, sorted
Listing(entries) ==
    Sorted(Flatten([i \in 1..Len(patterns) |-> Glob(entries, patterns[i])]))

\* os.path.exists(folder)
Exists(folder) == static_dirs[folder].exists

\* lines 451-455: os.path.abspath("static") is os.path.join(os.getcwd(), "static")
alternative_paths == <<"cwd_static", "app_static", "cwd_static">>

\* lines 448-464: the folder the call lists and leaves in STATIC_FOLDER;
\* Absent when neither it nor any alternative exists
FolderFound ==
    IF Exists(STATIC_FOLDER) THEN STATIC_FOLDER
    ELSE IF \E i \in 1..Len(alternative_paths) : Exists(alternative_paths[i])
    THEN alternative_paths[CHOOSE i \in 1..Len(alternative_paths) :
                              /\ Exists(alternative_paths[i])
                              /\ \A j \in 1..(i - 1) : ~Exists(alternative_paths[j])]
    ELSE NoFolder

\* lines 440-479: the value get_static_emoji_files() returns
FilesListed ==
    IF FolderFound = NoFolder THEN <<>> ELSE Listing(static_dirs[FolderFound].entries)

\* lines 448-461: the value the call leaves in STATIC_FOLDER
FolderAfterCall == IF FolderFound = NoFolder THEN STATIC_FOLDER ELSE FolderFound

Whitespace == {" "}

\* not query.strip()
IsBlank(query) == \A i \in 1..Len(query) : query[i] \in Whitespace

\* needle in haystack, for str
Contains(haystack, needle) ==
    \E i \in 1..(Len(haystack) - Len(needle) + 1) :
        SubSeq(haystack, i, i + Len(needle) - 1) = needle

DisplayCap == 25

\* mutant: the file name is compared as it is spelled
SearchResult_CaseSensitive(all_files, query) ==
    IF IsBlank(query) THEN Take(all_files, DisplayCap)
    ELSE Take(SelectSeq(all_files, LAMBDA f : Contains(f, Lower(query))), DisplayCap)

\* mutant: the blank query returns the whole list
SearchResult_NoCap(all_files, query) ==
    IF IsBlank(query) THEN all_files
    ELSE Take(SelectSeq(all_files, LAMBDA f : Contains(Lower(f), Lower(query))),
              DisplayCap)

\* lines 485-496: the value search_static_emojis(query) returns, given the
\* list get_static_emoji_files() returned
SearchResult(all_files, query) ==
    IF IsBlank(query) THEN Take(all_files, DisplayCap)
    ELSE Take(SelectSeq(all_files, LAMBDA f : Contains(Lower(f), Lower(query))),
              DisplayCap)

\* lines 440-479: one call of get_static_emoji_files()
GetStaticEmojiFiles ==
    /\ pc = "idle"
    /\ files_returned' = <<FilesListed>>
    /\ prev_returned' = files_returned
    /\ STATIC_FOLDER' = FolderAfterCall
    /\ UNCHANGED <<static_dirs, search_returned, sanVars, wfVars, botVars>>

\* the queries searched for
Queries ==
    {<<>>, <<" ">>, <<"c", "a", "t">>, <<"C", "A", "T">>, <<" ", "c", "a", "t">>,
     <<"e">>, <<".", "p", "n", "g">>, <<"e", "0", "3">>}

\* lines 482-496: one call of search_static_emojis(query)
SearchStaticEmojis ==
    \E query \in Queries :
        /\ pc = "idle"
        /\ search_returned' =
              <<[query |-> query, matches |-> SearchResult(FilesListed, query)]>>
        /\ STATIC_FOLDER' = FolderAfterCall
        /\ UNCHANGED <<static_dirs, files_returned, prev_returned, sanVars, wfVars, botVars>>

---------------------------------------------------------------------------
(* The asset store: folders and the files put into them                    *)

\* most files of the small universe a folder holds besides a numbered run
MaxFiles == 2

Folders == {"module_static", "cwd_static", "app_static"}

CatPng == <<"c", "a", "t", ".", "p", "n", "g">>
CatGif == <<"C", "a", "t", ".", "g", "i", "f">>
DogJpg == <<"d", "o", "g", ".", "j", "p", "g">>
AJpeg == <<"a", ".", "j", "p", "e", "g">>
NoteTxt == <<"n", "o", "t", "e", ".", "t", "x", "t">>
\* the AppleDouble companion of cat.png, a hidden file
HiddenPng == <<".", "_", "c", "a", "t", ".", "p", "n", "g">>

\* the files that come and go in the module's own folder
FileNames == {CatPng, CatGif, NoteTxt, HiddenPng}

\* e<nn>.png
Numbered(i) == <<"e", DigitChar(i \div 10), DigitChar(i % 10), ".", "p", "n", "g">>

\* e<n>.png, ..., e01.png: a run of n files in descending order
NumberedRun(n) == [i \in 1..n |-> Numbered(n + 1 - i)]

\* the sequences of at most n distinct elements of S, in every order
RECURSIVE Arrangements(_, _)
Arrangements(S, n) ==
    IF n = 0 THEN {<<>>}
    ELSE LET shorter == Arrangements(S, n - 1)
         IN  shorter \cup
             {a \o <<x>> : a \in {b \in shorter : Len(b) = n - 1}, x \in S}

NoRepeat(l) == \A i, j \in 1..Len(l) : l[i] = l[j] => i = j

\* what a folder may hold: nothing at all (the folder is missing), a few files
\* in any directory order, or a run of more files than the display cap
Contents(folder) ==
    IF folder = "module_static"
    THEN {Absent}
         \cup {Holding(a) : a \in {b \in Arrangements(FileNames, MaxFiles) : NoRepeat(b)}}
         \cup {Holding(NumberedRun(DisplayCap + 1)),
               Holding(<<CatPng>> \o NumberedRun(DisplayCap + 1) \o <<CatGif>>),
               Holding(NumberedRun(DisplayCap - 1) \o <<HiddenPng, AJpeg>>)}
    ELSE IF folder = "cwd_static" THEN {Absent, Holding(<<DogJpg>>)}
    ELSE {Absent, Holding(<<CatPng, AJpeg>>)}

\* files are added to or removed from a folder, or the folder is created or
\* removed, between two calls
ChangeDirectory ==
    \E folder \in Folders : \E entries \in Contents(folder) :
        /\ pc = "idle"
        /\ entries # static_dirs[folder]
        /\ static_dirs' = [static_dirs EXCEPT ![folder] = entries]
        /\ files_returned' = Unknown
        /\ prev_returned' = Unknown
        /\ search_returned' = Unknown
        /\ UNCHANGED <<STATIC_FOLDER, sanVars, wfVars, botVars>>

InitStatic ==
    /\ SanitizerIdle
    /\ static_dirs \in [Folders -> UNION {Contents(f) : f \in Folders}]
    /\ \A f \in Folders : static_dirs[f] \in Contents(f)
    /\ STATIC_FOLDER = "module_static"
    /\ files_returned = Unknown
    /\ prev_returned = Unknown
    /\ search_returned = Unknown
    /\ HandlersIdle
    /\ BotIdle

NextStatic == GetStaticEmojiFiles \/ SearchStaticEmojis \/ ChangeDirectory

SpecStatic == InitStatic /\ [][NextStatic]_vars

---------------------------------------------------------------------------
(* Helpers of the two handlers                                             *)

NoChannel == [kind |-> "none", index |-> 0]

\* mutant: the interaction's channel is tried before the fixed one
GetResponseChannel_CurrentFirst(ch) ==
    IF ch.current_send THEN [kind |-> "current", index |-> 0]
    ELSE IF ch.fixed = "send" THEN [kind |-> "fixed", index |-> 0]
    ELSE IF \E i \in 1..Len(ch.text_channels) : ch.text_channels[i]
    THEN [kind |-> "text",
          index |-> CHOOSE i \in 1..Len(ch.text_channels) :
                       /\ ch.text_channels[i]
                       /\ \A j \in 1..(i - 1) : ~ch.text_channels[j]]
    ELSE [kind |-> "none", index |-> 0]

\* lines 104-125: get_response_channel; ch.fixed tells whether the channel
\* with the hard-coded id is missing, exists without send permission, or
\* exists with it
GetResponseChannel(ch) ==
    IF ch.fixed = "send" THEN [kind |-> "fixed", index |-> 0]
    ELSE IF ch.current_send THEN [kind |-> "current", index |-> 0]
    ELSE IF \E i \in 1..Len(ch.text_channels) : ch.text_channels[i]
    THEN [kind |-> "text",
          index |-> CHOOSE i \in 1..Len(ch.text_channels) :
                       /\ ch.text_channels[i]
                       /\ \A j \in 1..(i - 1) : ~ch.text_channels[j]]
    ELSE NoChannel

\* lines 282-286 run to the end: <<name>> when the loop ends with that name,
\* <<>> when it is still running at counter = MaxCounter
RECURSIVE UniqueFrom(_, _, _, _)
UniqueFrom(original, candidate, n, existing) ==
    IF candidate \notin existing THEN <<candidate>>
    ELSE IF n > MaxCounter THEN <<>>
    ELSE UniqueFrom(original, Candidate(original, n), n + 1, existing)

\* lines 261-288: sanitize_emoji_name(raw, guild) as one call
SanitizeEmojiName(raw, existing) == UniqueFrom(BaseName(raw), BaseName(raw), 1, existing)

\* {emoji.name for emoji in guild.emojis}
EmojiNames == {e.name : e \in guild_emojis}

RECURSIVE LStripSpace(_)
LStripSpace(s) ==
    IF s # <<>> /\ Head(s) \in Whitespace THEN LStripSpace(Tail(s)) ELSE s

RECURSIVE TakeWord(_)
TakeWord(s) ==
    IF s = <<>> \/ Head(s) \in Whitespace THEN <<>>
    ELSE <<Head(s)>> \o TakeWord(Tail(s))

\* lines 317-319: prompt.split()[0] if prompt.split() else "emoji"
FirstWord(prompt) ==
    LET word == TakeWord(LStripSpace(prompt))
    IN  IF word = <<>> THEN <<"e", "m", "o", "j", "i">> ELSE word

\* line 707: os.path.splitext(selected_file)[0]
SplitExtBase(f) ==
    LET dots == {i \in 1..Len(f) : f[i] = "." /\ \E j \in 1..(i - 1) : f[j] # "."}
    IN  IF dots = {} THEN f
        ELSE SubSeq(f, 1, (CHOOSE i \in dots : \A k \in dots : k <= i) - 1)

\* line 730: selected_file.lower().endswith(".gif")
IsGif(f) == EndsWith(Lower(f), <<".", "g", "i", "f">>)

---------------------------------------------------------------------------
(* The runs.  A handler is a coroutine: it runs without interruption from   *)
(* one await to the next.  runs[r].pc names the await the run is suspended  *)
(* at; an action is the completion of that await, with one of its outcomes, *)
(* followed by the statements up to the next await.                         *)

Runs == {"r1", "r2"}

\* a discord.py call returns, raises discord.HTTPException (or a subclass:
\* Forbidden, NotFound), or raises something else
DiscordOutcomes == {"ok", "http", "other"}
CreateOutcomes == {"ok", "forbidden", "http", "other"}
\* lines 327-351: a URL, a response without URL, asyncio.TimeoutError after
\* 30 s, any other exception
GenerateOutcomes == {"ok", "no_url", "timeout", "error"}
\* lines 354-370: status 200, another status, asyncio.TimeoutError after 30 s,
\* any other exception
DownloadOutcomes == {"ok", "status", "timeout", "error"}

\* what session.get(image_url) gives: a response, asyncio.TimeoutError once
\* the 30 s of ClientTimeout are over, or another exception
DownloadAnswers == {"response", "timeout", "error"}

\* resp.status of a response: 200 OK, 204 No Content, 404, 500
StatusCodes == {200, 204, 404, 500}

\* no response was received
NoStatus == 0

\* mutant: every status from 200 to 299 is accepted
DownloadResult_Any2xx(status) == IF status \in 200..299 THEN "ok" ELSE "status"

\* line 358: if resp.status != 200
DownloadResult(status) == IF status # 200 THEN "status" ELSE "ok"

Entry(op, msg, res) == [op |-> op, msg |-> msg, res |-> res]

\* the run with pc, msg and the other given fields changed, and one more
\* entry in its log
Moved(r, entry, pcNew, msgNew) ==
    [runs[r] EXCEPT !.log = Append(@, entry), !.pc = pcNew, !.msg = msgNew]

\* where an exception that no except clause of the statement catches goes:
\* on_submit has no enclosing try and the exception leaves the handler;
\* callback's body is inside try ... except Exception (lines 649, 813)
Escape(r) == IF runs[r].kind = "generated" THEN "raised" ELSE "generic"

\* how the requester is told: on_submit uses interaction.followup.send;
\* callback edits the original response when it has original_interaction
Via(r) ==
    IF runs[r].kind = "static" /\ runs[r].original_interaction
    THEN "edit_original_response"
    ELSE "followup.send"

\* line 292: await interaction.response.defer(...), then lines 295-320 up to
\* the await of the image generation
GenDefer(r) ==
    /\ runs[r].kind = "generated"
    /\ runs[r].pc = "defer"
    /\ \E res \in DiscordOutcomes :
        LET entry == Entry("response.defer", "", res)
            ch == GetResponseChannel(channels)
            found == SanitizeEmojiName(FirstWord(runs[r].input), EmojiNames)
        IN  runs' =
              [runs EXCEPT ![r] =
                 IF res # "ok" THEN Moved(r, entry, "raised", "")
                 ELSE IF ch = NoChannel THEN Moved(r, entry, "notify", "no_channel")
                 ELSE IF found = <<>>
                      THEN [Moved(r, entry, "sanitizing", "") EXCEPT
                               !.response_channel = ch]
                 ELSE [Moved(r, entry, "generate", "") EXCEPT
                          !.response_channel = ch, !.sanitized_name = found[1]]]
    /\ UNCHANGED <<guild_emojis, channels, sanVars, fsVars, botVars>>

AfterGenerate_TimeoutIgnored(res) ==
    CASE res = "ok" -> <<"download", "">>
      [] res = "no_url" -> <<"notify", "no_url">>
      [] res = "timeout" -> <<"download", "">>
      [] res = "error" -> <<"notify", "gen_failed">>

\* mutant: after a time-out the generation is awaited again
AfterGenerate_RetriesOnTimeout(res) ==
    CASE res = "ok" -> <<"download", "">>
      [] res = "no_url" -> <<"notify", "no_url">>
      [] res = "timeout" -> <<"generate", "">>
      [] res = "error" -> <<"notify", "gen_failed">>

\* mutant: a failed generation ends the handler without a message
AfterGenerate_ErrorSilent(res) ==
    CASE res = "ok" -> <<"download", "">>
      [] res = "no_url" -> <<"notify", "no_url">>
      [] res = "timeout" -> <<"notify", "gen_timeout">>
      [] res = "error" -> <<"done", "">>

\* lines 339-351: what follows the generation: the download, or the message
\* of the branch or except clause taken
AfterGenerate(res) ==
    CASE res = "ok" -> <<"download", "">>
      [] res = "no_url" -> <<"notify", "no_url">>
      [] res = "timeout" -> <<"notify", "gen_timeout">>
      [] res = "error" -> <<"notify", "gen_failed">>

\* lines 327-351: the await of asyncio.wait_for(to_thread(images.generate), 30)
GenGenerate(r) ==
    /\ runs[r].kind = "generated"
    /\ runs[r].pc = "generate"
    /\ \E res \in GenerateOutcomes :
        runs' = [runs EXCEPT ![r] =
                   Moved(r, Entry("images.generate", "", res),
                         AfterGenerate(res)[1], AfterGenerate(res)[2])]
    /\ UNCHANGED <<guild_emojis, channels, sanVars, fsVars, botVars>>

\* what the PIL block does: "ok" (the image is replaced), "failed" (an
\* exception, passed over), "small" (callback: not larger than 128x128,
\* nothing to do), "skipped" (callback: a GIF, the block is not entered)
NormalizeOutcomes(r) ==
    IF runs[r].kind = "generated" THEN {"ok", "failed"}
    ELSE IF IsGif(runs[r].input) THEN {"skipped"}
    ELSE {"ok", "small", "failed"}

\* the bytes before the PIL block: the download's, the file's
OriginalBytes(kind) == IF kind = "generated" THEN "downloaded" ELSE "file"

\* mutant: a failure leaves the partly processed image in image_data
NormalizedImage_KeepsPartial(kind, outcome) ==
    CASE outcome = "ok" -> IF kind = "generated" THEN "cropped_128" ELSE "resized_128"
      [] outcome = "failed" -> "partial"
      [] OTHER -> OriginalBytes(kind)

\* lines 373-399 and 730-743: image_data after the PIL block; it is assigned
\* in the block's last statement only
NormalizedImage(kind, outcome) ==
    CASE outcome = "ok" -> IF kind = "generated" THEN "cropped_128" ELSE "resized_128"
      [] OTHER -> OriginalBytes(kind)

\* lines 354-370: the download; then lines 373-399, the crop and resize,
\* which either replaces image_data or fails and leaves it as downloaded
GenDownload(r) ==
    /\ runs[r].kind = "generated"
    /\ runs[r].pc = "download"
    /\ \E answer \in DownloadAnswers, status \in StatusCodes, pil \in NormalizeOutcomes(r) :
        LET res == IF answer = "response" THEN DownloadResult(status) ELSE answer
            entry == Entry("session.get", "", res)
            received == IF answer = "response" THEN status ELSE NoStatus
        IN  /\ res \in DownloadOutcomes
            /\ answer # "response" => status = 200
            /\ res # "ok" => pil = "ok"
            /\ runs' =
                 [runs EXCEPT ![r] =
                    CASE res = "ok" ->
                           [Moved(r, entry, "create", "") EXCEPT
                               !.status = received,
                               !.image_data = NormalizedImage("generated", pil),
                               !.normalize = pil]
                      [] res = "status" ->
                           [Moved(r, entry, "notify", "download_status") EXCEPT
                               !.status = received]
                      [] res = "timeout" -> Moved(r, entry, "notify", "download_timeout")
                      [] res = "error" -> Moved(r, entry, "notify", "download_failed")]
    /\ UNCHANGED <<guild_emojis, channels, sanVars, fsVars, botVars>>

\* lines 340 and 359: a send inside the try block; an exception it raises is
\* caught by `except Exception` of the same try, which sends another message
GenNotifyInTry(r) ==
    /\ runs[r].kind = "generated"
    /\ runs[r].pc = "notify"
    /\ runs[r].msg \in {"no_url", "download_status"}
    /\ \E res \in DiscordOutcomes :
        LET entry == Entry(Via(r), runs[r].msg, res)
        IN  runs' =
              [runs EXCEPT ![r] =
                 IF res = "ok" THEN Moved(r, entry, "done", "")
                 ELSE IF runs[r].msg = "no_url"
                      THEN Moved(r, entry, "notify", "gen_failed")
                      ELSE Moved(r, entry, "notify", "download_failed")]
    /\ UNCHANGED <<guild_emojis, channels, sanVars, fsVars, botVars>>

ReturningMessages ==
    {"no_channel", "gen_timeout", "gen_failed", "download_timeout", "download_failed",
     "not_found", "read_failed", "forbidden", "create_failed"}

\* `return await <send>(...)` outside a try or inside an except clause:
\* the handler returns; an exception of the send escapes
NotifyAndReturn(r) ==
    /\ runs[r].pc = "notify"
    /\ runs[r].msg \in ReturningMessages
    /\ \E res \in DiscordOutcomes :
        runs' = [runs EXCEPT ![r] =
                   Moved(r, Entry(Via(r), runs[r].msg, res),
                         IF res = "ok" THEN "done" ELSE Escape(r), "")]
    /\ UNCHANGED <<guild_emojis, channels, sanVars, fsVars, botVars>>

\* lines 300, 345, 349, 364, 368, 407, 411
GenNotifyAndReturn(r) == runs[r].kind = "generated" /\ NotifyAndReturn(r)

\* lines 676-685, 695-704, 719-727, 753-761, 765-774
StaticNotifyAndReturn(r) == runs[r].kind = "static" /\ NotifyAndReturn(r)

\* mutant: discord.Forbidden is passed over and the handler goes on
AfterCreate_ForbiddenIgnored(r, res) ==
    CASE res = "ok" -> <<"react", "">>
      [] res = "forbidden" -> <<"react", "">>
      [] res = "http" -> <<"notify", "create_failed">>
      [] res = "other" -> <<Escape(r), "">>

\* mutant: the created emoji is deleted at once
AfterCreate_SkipsReaction(r, res) ==
    CASE res = "ok" -> <<"delete", "">>
      [] res = "forbidden" -> <<"notify", "forbidden">>
      [] res = "http" -> <<"notify", "create_failed">>
      [] res = "other" -> <<Escape(r), "">>

\* lines 406-413: what follows the creation: the reaction, or the message of
\* the except clause taken (discord.Forbidden is tried first)
AfterCreate(r, res) ==
    CASE res = "ok" -> <<"react", "">>
      [] res = "forbidden" -> <<"notify", "forbidden">>
      [] res = "http" -> <<"notify", "create_failed">>
      [] res = "other" -> <<Escape(r), "">>

\* await guild.create_custom_emoji(name=sanitized_name, image=image_data)
Create(r) ==
    /\ runs[r].pc = "create"
    /\ \E res \in CreateOutcomes :
        LET entry == Entry("create_custom_emoji", "", res)
            moved == Moved(r, entry, AfterCreate(r, res)[1], AfterCreate(r, res)[2])
        IN  /\ runs' =
                 [runs EXCEPT ![r] =
                    IF res = "ok" THEN [moved EXCEPT !.emoji = TRUE] ELSE moved]
            /\ guild_emojis' =
                 IF res = "ok"
                 THEN guild_emojis \cup {[name |-> runs[r].sanitized_name, by |-> r]}
                 ELSE guild_emojis
    /\ UNCHANGED <<channels, sanVars, fsVars, botVars>>

\* lines 402-413
GenCreate(r) == runs[r].kind = "generated" /\ Create(r)

\* lines 746-774
StaticCreate(r) == runs[r].kind = "static" /\ Create(r)

\* an await inside the try block that follows the creation: on success the
\* next statement, on discord.HTTPException the except clause, which sends
\* "Failed to react"; any other exception escapes
InReactTry_FailureSwallowed(r, at, op, msg, next) ==
    /\ runs[r].pc = at
    /\ \E res \in DiscordOutcomes :
        runs' = [runs EXCEPT ![r] =
                   CASE res \in {"ok", "http"} -> Moved(r, Entry(op, msg, res), next, "")
                     [] res = "other" -> Moved(r, Entry(op, msg, res), Escape(r), "")]
    /\ UNCHANGED <<guild_emojis, channels, sanVars, fsVars, botVars>>

InReactTry(r, at, op, msg, next) ==
    /\ runs[r].pc = at
    /\ \E res \in DiscordOutcomes :
        runs' = [runs EXCEPT ![r] =
                   CASE res = "ok" -> Moved(r, Entry(op, msg, res), next, "")
                     [] res = "http" ->
                          Moved(r, Entry(op, msg, res), "notify", "react_failed")
                     [] res = "other" -> Moved(r, Entry(op, msg, res), Escape(r), "")]
    /\ UNCHANGED <<guild_emojis, channels, sanVars, fsVars, botVars>>

\* line 417: await self.target_message.add_reaction(emoji)
GenReact(r) ==
    runs[r].kind = "generated" /\ InReactTry(r, "react", "add_reaction", "", "announce")

\* line 423: await response_channel.send(success_message)
GenAnnounce(r) ==
    runs[r].kind = "generated" /\ InReactTry(r, "announce", "channel.send", "", "confirm")

\* lines 426-428: await interaction.followup.send("Emoji generated and added!")
GenConfirm(r) ==
    runs[r].kind = "generated" /\ InReactTry(r, "confirm", Via(r), "success", "delete")

\* line 778
StaticReact(r) ==
    runs[r].kind = "static" /\ InReactTry(r, "react", "add_reaction", "", "announce")

\* line 782
StaticAnnounce(r) ==
    runs[r].kind = "static" /\ InReactTry(r, "announce", "channel.send", "", "confirm")

\* lines 785-794
StaticConfirm(r) ==
    runs[r].kind = "static" /\ InReactTry(r, "confirm", Via(r), "success", "delete")

\* the except clause of that try: the "Failed to react" message; when it is
\* sent the handler goes on to the clean-up, when the send raises the
\* exception escapes
NotifyReactFailed(r) ==
    /\ runs[r].pc = "notify"
    /\ runs[r].msg = "react_failed"
    /\ \E res \in DiscordOutcomes :
        runs' = [runs EXCEPT ![r] =
                   Moved(r, Entry(Via(r), "react_failed", res),
                         IF res = "ok" THEN "delete" ELSE Escape(r), "")]
    /\ UNCHANGED <<guild_emojis, channels, sanVars, fsVars, botVars>>

\* lines 430-431
GenNotifyReactFailed(r) == runs[r].kind = "generated" /\ NotifyReactFailed(r)

\* lines 796-805
StaticNotifyReactFailed(r) == runs[r].kind = "static" /\ NotifyReactFailed(r)

\* the clean-up: await emoji.delete(); discord.HTTPException is passed over
Delete(r) ==
    /\ runs[r].pc = "delete"
    /\ \E res \in DiscordOutcomes :
        /\ runs' = [runs EXCEPT ![r] =
                      Moved(r, Entry("emoji.delete", "", res),
                            IF res = "other" THEN Escape(r) ELSE "done", "")]
        /\ guild_emojis' =
             IF res = "ok" THEN {e \in guild_emojis : e.by # r} ELSE guild_emojis
    /\ UNCHANGED <<channels, sanVars, fsVars, botVars>>

\* lines 434-437
GenDelete(r) == runs[r].kind = "generated" /\ Delete(r)

\* lines 808-811
StaticDelete(r) == runs[r].kind = "static" /\ Delete(r)

\* lines 651-653: interaction.response.is_done()
StaticBegin(r) ==
    /\ runs[r].kind = "static"
    /\ runs[r].pc = "start"
    /\ \E responded \in BOOLEAN :
        runs' = [runs EXCEPT ![r] =
                   IF responded THEN Moved(r, Entry("is_done", "", "true"), "done", "")
                   ELSE Moved(r, Entry("is_done", "", "false"), "defer", "")]
    /\ UNCHANGED <<guild_emojis, channels, sanVars, fsVars, botVars>>

\* lines 655-664: the defer, whose every exception ends the handler; then
\* lines 666-743 up to the await of the creation: the file is looked up, the
\* channel resolved, the name sanitized, the file read and, unless it is a
\* GIF, resized when it is larger than 128x128 and the resize succeeds
StaticDefer(r) ==
    /\ runs[r].kind = "static"
    /\ runs[r].pc = "defer"
    /\ \E res \in DiscordOutcomes, exists \in BOOLEAN, readable \in BOOLEAN,
          pil \in NormalizeOutcomes(r) :
        LET entry == Entry("response.defer", "", res)
            ch == GetResponseChannel(channels)
            found == SanitizeEmojiName(SplitExtBase(runs[r].input), EmojiNames)
            first == CHOOSE o \in NormalizeOutcomes(r) :
                        o \in {"ok", "skipped"}
        IN  /\ (res # "ok" \/ ~exists \/ ch = NoChannel) => (readable /\ pil = first)
            /\ ~readable => pil = first
            /\ runs' =
                 [runs EXCEPT ![r] =
                    IF res # "ok" THEN Moved(r, entry, "done", "")
                    ELSE IF ~exists THEN Moved(r, entry, "notify", "not_found")
                    ELSE IF ch = NoChannel THEN Moved(r, entry, "notify", "no_channel")
                    ELSE IF found = <<>>
                         THEN [Moved(r, entry, "sanitizing", "") EXCEPT
                                  !.response_channel = ch]
                    ELSE IF ~readable
                         THEN [Moved(r, entry, "notify", "read_failed") EXCEPT
                                  !.response_channel = ch, !.sanitized_name = found[1]]
                    ELSE [Moved(r, entry, "create", "") EXCEPT
                             !.response_channel = ch, !.sanitized_name = found[1],
                             !.image_data = NormalizedImage("static", pil),
                             !.normalize = pil]]
    /\ UNCHANGED <<guild_emojis, channels, sanVars, fsVars, botVars>>

\* lines 813-835: except Exception: the generic message is tried and whatever
\* the send raises is passed over
StaticGeneric(r) ==
    /\ runs[r].kind = "static"
    /\ runs[r].pc = "generic"
    /\ \E res \in DiscordOutcomes :
        runs' = [runs EXCEPT ![r] = Moved(r, Entry(Via(r), "generic", res), "done", "")]
    /\ UNCHANGED <<guild_emojis, channels, sanVars, fsVars, botVars>>

---------------------------------------------------------------------------
(* The runs' inputs                                                        *)

CatEmoji == <<"c", "a", "t">>

\* the modal's prompt: "cat x", or only a space
Prompts == {<<"c", "a", "t", " ", "x">>, <<" ">>}

\* the file picked in the select menu
SelectedFiles == {CatPng, CatGif}

NewRun(kind, input, orig) ==
    [kind |-> kind,
     pc |-> IF kind = "generated" THEN "defer" ELSE "start",
     msg |-> "",
     log |-> <<>>,
     input |-> input,
     original_interaction |-> orig,
     response_channel |-> NoChannel,
     sanitized_name |-> NoName,
     image_data |-> "none",
     normalize |-> "none",
     status |-> NoStatus,
     emoji |-> FALSE]

\* a handler that is never invoked
NoRun == [NewRun("none", <<>>, FALSE) EXCEPT !.pc = "absent"]

NewRuns ==
    {NewRun("generated", p, FALSE) : p \in Prompts}
    \cup {NewRun("static", f, o) : f \in SelectedFiles, o \in BOOLEAN}

\* the guild's channels: the channel with the fixed id missing, present
\* without send permission or present with it; the interaction's channel
\* with or without send permission; up to MaxChannels text channels, each
\* with or without it
ChannelConfigs ==
    [fixed : {"missing", "no_send", "send"},
     current_send : BOOLEAN,
     text_channels : SeqsUpTo(BOOLEAN, MaxChannels)]

\* the emojis the guild has before the runs
OldEmojis == {{}, {[name |-> CatEmoji, by |-> "old"]}}

\* one invocation of a handler
InitWorkflow ==
    /\ SanitizerIdle
    /\ StoreIdle
    /\ BotIdle
    /\ guild_emojis \in OldEmojis
    /\ channels \in ChannelConfigs
    /\ \E run \in NewRuns : runs = [r \in Runs |-> IF r = "r1" THEN run ELSE NoRun]

RunStep(r) ==
    \/ GenDefer(r)
    \/ GenGenerate(r)
    \/ GenDownload(r)
    \/ GenNotifyInTry(r)
    \/ GenNotifyAndReturn(r)
    \/ GenCreate(r)
    \/ GenReact(r)
    \/ GenAnnounce(r)
    \/ GenConfirm(r)
    \/ GenNotifyReactFailed(r)
    \/ GenDelete(r)
    \/ StaticBegin(r)
    \/ StaticDefer(r)
    \/ StaticNotifyAndReturn(r)
    \/ StaticCreate(r)
    \/ StaticReact(r)
    \/ StaticAnnounce(r)
    \/ StaticConfirm(r)
    \/ StaticNotifyReactFailed(r)
    \/ StaticDelete(r)
    \/ StaticGeneric(r)

NextWorkflow == \E r \in Runs : RunStep(r)

SpecWorkflow == InitWorkflow /\ [][NextWorkflow]_vars

\* two invocations on the same guild, both started before either has
\* resumed: a generation for the prompt "cat x" together with a selection of
\* cat.png or with a second generation for the same prompt
InitTwoRuns ==
    /\ SanitizerIdle
    /\ StoreIdle
    /\ BotIdle
    /\ guild_emojis \in OldEmojis
    /\ channels = [fixed |-> "send", current_send |-> TRUE, text_channels |-> <<TRUE>>]
    /\ \E second \in {NewRun("static", CatPng, TRUE),
                      NewRun("generated", <<"c", "a", "t", " ", "x">>, FALSE)} :
          runs = [r \in Runs |->
                    IF r = "r1" THEN NewRun("generated", <<"c", "a", "t", " ", "x">>, FALSE)
                    ELSE second]

\* the event loop resumes one of the suspended handlers
NextTwoRuns == \E r \in Runs : RunStep(r)

SpecTwoRuns == InitTwoRuns /\ [][NextTwoRuns]_vars

---------------------------------------------------------------------------
(* EmojiBot: the automatic command syncs of setup_hook, on_ready and       *)
(* on_guild_join.  Each of them awaits self.tree.sync(guild=...) between   *)
(* its test of synced_guilds and its insertion; an action is the start of  *)
(* a handler up to its first await, or the completion of the await up to   *)
(* the next one.                                                           *)

\* the guilds, by id
Guilds == {"g1", "g2"}

\* GUILD_ID unset, the id of a guild, a text that int() rejects
GuildIdSettings == {"", "g1", "not_a_number"}

\* the handler invocations followed: setup_hook, on_ready fired when the
\* connection is made and again after a reconnect, one on_guild_join
Handlers == {"setup_hook", "on_ready_1", "on_ready_2", "on_guild_join"}

NotInvoked == [pc |-> "absent", guild |-> "", todo |-> <<>>]
HandlerAt(how) == [pc |-> how, guild |-> "", todo |-> <<>>]
Syncing(g, rest) == [pc |-> "sync", guild |-> g, todo |-> rest]

\* self.tree.sync returns, raises discord.HTTPException, or raises
\* something else
SyncOutcomes == {"ok", "http", "other"}

\* lines 91, 54, 69: self.synced_guilds.add(...) after the sync has returned
SyncedAfter(g, res) == IF res = "ok" THEN synced_guilds \cup {g} ELSE synced_guilds

\* the successful syncs counted
CountAfter(g, res) ==
    IF res = "ok" THEN [sync_count EXCEPT ![g] = @ + 1] ELSE sync_count

\* lines 86-87: the loop passes over the guilds found in synced_guilds
RECURSIVE SkipSynced(_, _)
SkipSynced(todo, synced) ==
    IF todo # <<>> /\ Head(todo) \in synced THEN SkipSynced(Tail(todo), synced)
    ELSE todo

\* lines 86-98: `for guild in self.guilds` from the guilds still to visit up
\* to the next await of self.tree.sync, or to the end of the loop
LoopFrom(todo, synced) ==
    LET rest == SkipSynced(todo, synced)
    IN  IF rest = <<>> THEN HandlerAt("done") ELSE Syncing(Head(rest), Tail(rest))

\* setup_hook has returned: discord.py awaits it in login(), before the
\* gateway connection that delivers on_ready and on_guild_join
Connected == handlers["setup_hook"].pc = "done"

\* lines 36-51: setup_hook up to its await; int(GUILD_ID) raises ValueError
\* for a text that is not a number, caught at line 59
SetupHook ==
    /\ handlers["setup_hook"].pc = "start"
    /\ handlers' =
         [handlers EXCEPT !["setup_hook"] =
            IF GUILD_ID \in Guilds THEN Syncing(GUILD_ID, <<>>) ELSE HandlerAt("done")]
    /\ UNCHANGED <<GUILD_ID, guilds, synced_guilds, sync_count, sanVars, fsVars, wfVars>>

\* lines 52-58: the sync of setup_hook completes; only ValueError is caught
SetupHookSynced ==
    /\ handlers["setup_hook"].pc = "sync"
    /\ \E res \in SyncOutcomes :
        LET g == handlers["setup_hook"].guild
        IN  /\ synced_guilds' = SyncedAfter(g, res)
            /\ sync_count' = CountAfter(g, res)
            /\ handlers' =
                 [handlers EXCEPT !["setup_hook"] =
                    HandlerAt(IF res = "ok" THEN "done" ELSE "raised")]
    /\ UNCHANGED <<GUILD_ID, guilds, sanVars, fsVars, wfVars>>

\* lines 74-90: on_ready is fired and runs up to its first await
OnReady(h) ==
    /\ h \in {"on_ready_1", "on_ready_2"}
    /\ Connected
    /\ handlers[h].pc = "absent"
    /\ h = "on_ready_2" => handlers["on_ready_1"].pc # "absent"
    /\ handlers' = [handlers EXCEPT ![h] = LoopFrom(guilds, synced_guilds)]
    /\ UNCHANGED <<GUILD_ID, guilds, synced_guilds, sync_count, sanVars, fsVars, wfVars>>

\* lines 90-98: a sync of on_ready completes; discord.HTTPException is
\* caught and the loop goes on
OnReadySynced(h) ==
    /\ h \in {"on_ready_1", "on_ready_2"}
    /\ handlers[h].pc = "sync"
    /\ \E res \in SyncOutcomes :
        LET g == handlers[h].guild
        IN  /\ synced_guilds' = SyncedAfter(g, res)
            /\ sync_count' = CountAfter(g, res)
            /\ handlers' =
                 [handlers EXCEPT ![h] =
                    IF res = "other" THEN HandlerAt("raised")
                    ELSE LoopFrom(handlers[h].todo, SyncedAfter(g, res))]
    /\ UNCHANGED <<GUILD_ID, guilds, sanVars, fsVars, wfVars>>

\* lines 62-68: the bot joins a guild and on_guild_join runs up to its await
OnGuildJoin(g) ==
    /\ Connected
    /\ handlers["on_guild_join"].pc = "absent"
    /\ \A i \in 1..Len(guilds) : guilds[i] # g
    /\ guilds' = Append(guilds, g)
    /\ handlers' = [handlers EXCEPT !["on_guild_join"] = LoopFrom(<<g>>, synced_guilds)]
    /\ UNCHANGED <<GUILD_ID, synced_guilds, sync_count, sanVars, fsVars, wfVars>>

\* lines 68-72: the sync of on_guild_join completes
OnGuildJoinSynced ==
    /\ handlers["on_guild_join"].pc = "sync"
    /\ \E res \in SyncOutcomes :
        LET g == handlers["on_guild_join"].guild
        IN  /\ synced_guilds' = SyncedAfter(g, res)
            /\ sync_count' = CountAfter(g, res)
            /\ handlers' =
                 [handlers EXCEPT !["on_guild_join"] =
                    HandlerAt(IF res = "other" THEN "raised" ELSE "done")]
    /\ UNCHANGED <<GUILD_ID, guilds, sanVars, fsVars, wfVars>>

\* the guilds the bot is in when it connects
GuildLists == {<<>>, <<"g1">>, <<"g2">>, <<"g1", "g2">>, <<"g2", "g1">>}

InitBot ==
    /\ SanitizerIdle
    /\ StoreIdle
    /\ HandlersIdle
    /\ GUILD_ID \in GuildIdSettings
    /\ guilds \in GuildLists
    /\ synced_guilds = {}
    /\ sync_count = [g \in Guilds |-> 0]
    /\ handlers = [h \in Handlers |->
                     IF h = "setup_hook" THEN HandlerAt("start") ELSE NotInvoked]

NextBot ==
    \/ SetupHook
    \/ SetupHookSynced
    \/ \E h \in Handlers : OnReady(h)
    \/ \E h \in Handlers : OnReadySynced(h)
    \/ \E g \in Guilds : OnGuildJoin(g)
    \/ OnGuildJoinSynced

SpecBot == InitBot /\ [][NextBot]_vars

---------------------------------------------------------------------------
(* Properties of sanitize_emoji_name                                       *)

Returned == pc = "done"

NameChars == LowerLetters \cup Digits \cup {"_"}

ValidName(s) ==
    /\ Len(s) >= 2
    /\ Len(s) <= 32
    /\ \A i \in 1..Len(s) : s[i] \in NameChars
    /\ s[1] # "_"
    /\ s[Len(s)] # "_"

C2_AlwaysReturns == <>Returned

\* The loop is followed only up to counter = MaxCounter.  Where the model
\* stops following it, the loop never ends in the code either: either the
\* suffix is cut off whole (the base has 31 or 32 characters), so that every
\* candidate is the base itself, or the base has 30 characters and all of
\* base_1 .. base_9 are taken, so that every candidate is one of those.
StoppedOnlyWhereLoopsForever ==
    (pc = "loop" /\ sanitized \in existing_names /\ counter > MaxCounter)
        => \/ Len(original_name) + 1 >= MaxNameLen
           \/ /\ Len(original_name) + 2 = MaxNameLen
              /\ \A d \in 1..9 :
                    original_name \o <<"_">> \o Str(d) \in existing_names

\* base_k cut to 32 characters
Suffixed(base, k) == Take(base \o <<"_">> \o Str(k), 32)

\* C5: the base name is returned when it is free; otherwise base_1, base_2,
\* ... (each cut to 32 characters) are tried in increasing order and the
\* first free one is returned; the returned name is never a taken one
C5_FirstFreeCandidate ==
    Returned =>
        /\ sanitized \notin existing_names
        /\ original_name \notin existing_names => sanitized = original_name
        /\ original_name \in existing_names =>
              \E k \in 1..(MaxCounter + 1) :
                 /\ sanitized = Suffixed(original_name, k)
                 /\ \A j \in 1..(k - 1) : Suffixed(original_name, j) \in existing_names

\* base and base_1 were taken and base_2 was returned
C5_Witness ==
    /\ Returned
    /\ counter = 3
    /\ sanitized = original_name \o <<"_", "2">>

\* C6 as stated: sanitize("x", {"x"}) = "x_1" and
\* sanitize("x", {"x", "x_1"}) = "x_2"
C6_AsStated ==
    (Returned /\ name = <<"x">>) =>
        /\ existing_names = {<<"x">>} => sanitized = <<"x", "_", "1">>
        /\ existing_names = {<<"x">>, <<"x", "_", "1">>}
              => sanitized = <<"x", "_", "2">>

\* C6, amended: a one-character name falls back, so sanitize("x", {"x"}) and
\* sanitize("x", {"x", "x_1"}) are "custom_emoji"; for the two-character
\* name "xx", sanitize("xx", {"xx"}) = "xx_1" and
\* sanitize("xx", {"xx", "xx_1"}) = "xx_2"
C6_SuffixExamples ==
    /\ (Returned /\ name = <<"x">>
          /\ existing_names \in {{<<"x">>}, {<<"x">>, <<"x", "_", "1">>}})
        => sanitized = <<"c", "u", "s", "t", "o", "m", "_", "e", "m", "o", "j", "i">>
    /\ (Returned /\ name = <<"x", "x">>) =>
          /\ existing_names = {<<"x", "x">>} => sanitized = <<"x", "x", "_", "1">>
          /\ existing_names = {<<"x", "x">>, <<"x", "x", "_", "1">>}
                => sanitized = <<"x", "x", "_", "2">>

C6_Witness ==
    /\ Returned
    /\ name = <<"x", "x">>
    /\ existing_names = {<<"x", "x">>, <<"x", "x", "_", "1">>}
    /\ counter = 3

\* the form the specification describes: characters outside [A-Za-z0-9_]
\* removed, then the remainder lower-cased, then "_" trimmed at both ends
StripFirstForm(raw) == Strip(Lower(SelectSeq(raw, IsWordChar)))

\* the form with the lower-casing done before the removal
LowerFirstForm(raw) == Strip(SelectSeq(Lower(raw), IsWordChar))

BaseComputed == pc # "start"

\* C7 as stated: when the strip-first form has fewer than 2 characters the
\* base name is "custom_emoji"
C7_AsStated ==
    (BaseComputed /\ Len(StripFirstForm(name)) < 2) => original_name = FallbackName

\* C7, amended: when the raw string, lower-cased first and then stripped of
\* every character outside [a-z0-9_] and trimmed of "_", has fewer than 2
\* characters, the base name is "custom_emoji"; sanitize("", {}) is
\* "custom_emoji"
C7_FallbackWhenShort ==
    /\ (BaseComputed /\ Len(LowerFirstForm(name)) < 2) => original_name = FallbackName
    /\ (Returned /\ name = <<>> /\ existing_names = {}) => sanitized = FallbackName

\* a one-character form, left by a raw string of three characters
C7_Witness ==
    /\ Returned
    /\ Len(name) = 3
    /\ Len(LowerFirstForm(name)) = 1
    /\ original_name = FallbackName

\* C8 as stated: when the strip-first form is longer than 32 characters the
\* base name is its first 32 characters without trailing "_"
C8_AsStated ==
    (BaseComputed /\ Len(StripFirstForm(name)) > 32)
        => original_name = RStrip(Take(StripFirstForm(name), 32))

\* C8, amended: when the raw string, lower-cased first and then stripped and
\* trimmed, is longer than 32 characters, the base name is its first 32
\* characters without trailing "_"; 50 "a" with no existing names give 32 "a"
C8_TruncatedWhenLong ==
    /\ (BaseComputed /\ Len(LowerFirstForm(name)) > 32)
          => original_name = RStrip(Take(LowerFirstForm(name), 32))
    /\ (Returned /\ name = Repeat("a", 50) /\ existing_names = {})
          => sanitized = Repeat("a", 32)

\* the cut left a trailing "_", which was removed
C8_Witness ==
    /\ Returned
    /\ Len(LowerFirstForm(name)) > 32
    /\ LowerFirstForm(name)[32] = "_"
    /\ Len(original_name) = 31

---------------------------------------------------------------------------
(* Properties of the asset listing and search                              *)

\* the entries of the folder the module lists
EntriesNow == static_dirs[STATIC_FOLDER].entries

Elements(l) == {l[i] : i \in 1..Len(l)}

ImageExtensions ==
    { <<".", "p", "n", "g">>, <<".", "j", "p", "g">>,
      <<".", "j", "p", "e", "g">>, <<".", "g", "i", "f">> }

HasImageExtension(f) ==
    \E ext \in ImageExtensions :
        Len(f) >= Len(ext) /\ \A i \in 1..Len(ext) : f[Len(f) - Len(ext) + i] = ext[i]

Ascending(l) == \A i \in 1..(Len(l) - 1) : StrLess(l[i], l[i + 1])

\* two characters equal up to case
SameIgnoringCase(c, d) == LowerChar(c) = LowerChar(d)

\* f contains q, compared case-insensitively
ContainsIgnoringCase(f, q) ==
    \E i \in 0..(Len(f) - Len(q)) :
        \A k \in 1..Len(q) : SameIgnoringCase(f[i + k], q[k])

\* the first n elements of l
FirstN(l, n) == [i \in 1..(IF Len(l) < n THEN Len(l) ELSE n) |-> l[i]]

\* C9: a blank query returns the first 25 names of get_static_emoji_files();
\* any other query returns, in listing order, the first 25 of the listed
\* names that contain the query case-insensitively
C9_SearchIsFilteredListing ==
    search_returned # Unknown =>
        LET q == search_returned[1].query
            m == search_returned[1].matches
        IN  IF q = <<>> \/ \A i \in 1..Len(q) : q[i] = " "
            THEN m = FirstN(FilesListed, 25)
            ELSE m = FirstN(SelectSeq(FilesListed,
                                      LAMBDA f : ContainsIgnoringCase(f, q)), 25)

\* an upper-case query found two files spelled otherwise among more than 25
C9_Witness ==
    /\ search_returned # Unknown
    /\ search_returned[1].query = <<"C", "A", "T">>
    /\ Len(search_returned[1].matches) = 2
    /\ Len(FilesListed) > 25

\* the idempotence half of C10: a second call on the unchanged store returns
\* what the first returned
SecondCallAgrees == prev_returned # Unknown => files_returned = prev_returned

\* C10 as stated: the list is the file names with extension .png, .jpg, .jpeg
\* or .gif, sorted ascending, and a second call returns the same list
C10_AsStated ==
    files_returned # Unknown =>
        /\ SecondCallAgrees
        /\ Ascending(files_returned[1])
        /\ Elements(files_returned[1]) =
              {f \in Elements(EntriesNow) : HasImageExtension(f)}

\* C10, amended: the list is the file names that do not begin with "." and
\* have extension .png, .jpg, .jpeg or .gif, sorted ascending, whatever the
\* directory order; a second call on the unchanged store returns the same
C10_ListingSortedAndIdempotent ==
    files_returned # Unknown =>
        /\ SecondCallAgrees
        /\ Ascending(files_returned[1])
        /\ Elements(files_returned[1]) =
              {f \in Elements(EntriesNow) : HasImageExtension(f) /\ f[1] # "."}

\* two calls were made and the list is not in directory order
C10_Witness ==
    /\ prev_returned # Unknown
    /\ Len(files_returned[1]) = 2
    /\ files_returned[1] # EntriesNow
    /\ Elements(files_returned[1]) = Elements(EntriesNow)
    /\ STATIC_FOLDER # "module_static"

---------------------------------------------------------------------------
(* Properties of the two handlers                                          *)

Ended(r) == runs[r].pc \in {"done", "raised"}

\* the positions of the run's log where the call op was made
Calls(r, op) == {i \in 1..Len(runs[r].log) : runs[r].log[i].op = op}

\* the positions where the call op returned without exception
Succeeded(r, op) == {i \in Calls(r, op) : runs[r].log[i].res = "ok"}

\* the last position of the reaction and announcement step: the reaction,
\* the announcement, the confirmation and the "Failed to react" message
StepCalls(r) ==
    Calls(r, "add_reaction") \cup Calls(r, "channel.send")
    \cup {i \in 1..Len(runs[r].log) : runs[r].log[i].msg \in {"success", "react_failed"}}

\* C3: in a run of either handler that has ended and in which the emoji was
\* created, emoji.delete() was called exactly once, and after every call of
\* the reaction and announcement step
C3_DeletedExactlyOnce ==
    \A r \in Runs :
        (Ended(r) /\ Succeeded(r, "create_custom_emoji") # {}) =>
            /\ Cardinality(Calls(r, "emoji.delete")) = 1
            /\ \A d \in Calls(r, "emoji.delete") : \A i \in StepCalls(r) : i < d

\* the clean-up is left out only where an exception left the reaction and
\* announcement step: the one raised by the "Failed to react" message, or one
\* that is not a discord.HTTPException
DeleteSkippedOnlyAfterEscape ==
    \A r \in Runs :
        (Ended(r) /\ Succeeded(r, "create_custom_emoji") # {}
                  /\ Calls(r, "emoji.delete") = {}) =>
            \E i \in StepCalls(r) :
                \/ runs[r].log[i].res = "other"
                \/ runs[r].log[i].msg = "react_failed" /\ runs[r].log[i].res # "ok"

TimedOutAt(r) ==
    {i \in Calls(r, "images.generate") : runs[r].log[i].res = "timeout"}

LaterOps == {"session.get", "create_custom_emoji", "add_reaction", "channel.send",
             "emoji.delete"}

\* C4: once the image generation of a run has timed out, the only call the
\* run makes is the one that sends the time-out message to the requester,
\* after which the handler is over; it makes no download, creates no emoji,
\* adds no reaction, announces nothing and deletes nothing
C4_TimeoutEndsRun ==
    \A r \in Runs : \A i \in TimedOutAt(r) :
        LET log == runs[r].log
        IN  /\ runs[r].pc \in {"notify", "done", "raised"}
            /\ runs[r].pc = "notify" => (runs[r].msg = "gen_timeout" /\ Len(log) = i)
            /\ Ended(r) =>
                 /\ Len(log) = i + 1
                 /\ log[i + 1].op = "followup.send"
                 /\ log[i + 1].msg = "gen_timeout"
                 /\ (runs[r].pc = "done") <=> (log[i + 1].res = "ok")
            /\ \A op \in LaterOps : Calls(r, op) = {}
            /\ ~runs[r].emoji
            /\ \A e \in guild_emojis : e.by # r

C4_Witness ==
    \E r \in Runs :
        /\ TimedOutAt(r) # {}
        /\ runs[r].pc = "done"
        /\ runs[r].log[Len(runs[r].log)] = Entry("followup.send", "gen_timeout", "ok")
        /\ runs[r].sanitized_name = CatEmoji \o <<"_", "1">>

\* the positions where the call op raised discord.HTTPException
Failed(r, op) == {i \in Calls(r, op) : runs[r].log[i].res = "http"}

\* the positions where the requester is told "Failed to react"
ReactFailedNotices(r) ==
    {i \in 1..Len(runs[r].log) : runs[r].log[i].msg = "react_failed"}

\* C12: in a run that has ended and in which adding the reaction failed, the
\* failure was reported to the requester and the success notice was still
\* sent to the response channel, after the failed reaction
C12_AnnouncedAfterFailedReaction ==
    \A r \in Runs : \A i \in Failed(r, "add_reaction") :
        Ended(r) =>
            /\ \E j \in ReactFailedNotices(r) : j > i
            /\ \E j \in Calls(r, "channel.send") : j > i

\* what the code does instead: after a failed reaction the run never sends
\* to the response channel; the next call is the "Failed to react" message
NoAnnouncementAfterFailedReaction ==
    \A r \in Runs : \A i \in Failed(r, "add_reaction") :
        /\ Calls(r, "channel.send") = {}
        /\ Len(runs[r].log) > i => runs[r].log[i + 1].msg = "react_failed"

\* the second half of C12: after a failed announcement the next call is the
\* "Failed to react" message to the requester, and nothing more is sent to
\* the response channel
AnnouncementFailureToldToRequester ==
    \A r \in Runs : \A i \in Failed(r, "channel.send") :
        /\ Cardinality(Calls(r, "channel.send")) = 1
        /\ Len(runs[r].log) > i =>
              /\ runs[r].log[i + 1].msg = "react_failed"
              /\ runs[r].log[i + 1].op \in {"followup.send", "edit_original_response"}

\* the positions where a call raised an exception that is not a
\* discord.HTTPException, the generic notice itself left aside
Unexpected(r) ==
    {i \in 1..Len(runs[r].log) :
        runs[r].log[i].res = "other" /\ runs[r].log[i].msg # "generic"}

GenericNotices(r) == {i \in 1..Len(runs[r].log) : runs[r].log[i].msg = "generic"}

\* C13: no exception leaves a handler, and in a run that has ended every
\* unexpected exception was followed by the generic failure notice to the
\* requester
C13_UnexpectedCaughtAndReported ==
    \A r \in Runs :
        /\ runs[r].pc # "raised"
        /\ Ended(r) => \A i \in Unexpected(r) : \E j \in GenericNotices(r) : j > i

\* what holds of StaticEmojiSelect.callback: no exception leaves it, and an
\* unexpected exception after the defer is followed by the generic notice
CallbackCatchesUnexpected ==
    \A r \in Runs :
        runs[r].kind = "static" =>
            /\ runs[r].pc # "raised"
            /\ Ended(r) =>
                 \A i \in Unexpected(r) :
                     \/ runs[r].log[i].op = "response.defer"
                     \/ \E j \in GenericNotices(r) : j > i

\* what holds of EmojiPromptModal.on_submit: the generic notice is never
\* sent, and an unexpected exception ends the run by leaving the handler,
\* unless it was raised inside the try blocks of the generation and the
\* download, whose `except Exception` reports it as their own failure
OnSubmitLetsUnexpectedOut ==
    \A r \in Runs :
        runs[r].kind = "generated" =>
            /\ GenericNotices(r) = {}
            /\ \A i \in Unexpected(r) :
                  \/ runs[r].log[i].msg \in {"no_url", "download_status"}
                  \/ runs[r].pc = "raised"

\* the calls that tell the requester something
RequesterOps == {"followup.send", "edit_original_response"}

\* the notices of a terminal failure that is found without an awaited call:
\* no usable channel, the selected file missing, the file unreadable
EarlyExitMessages == {"no_channel", "not_found", "read_failed"}

\* the positions of the run's log where a terminal failure shows: a failed
\* generation, download or creation, or the first notice of an early exit
TerminalFailures(r) ==
    {i \in 1..Len(runs[r].log) :
        \/ /\ runs[r].log[i].op \in {"images.generate", "session.get", "create_custom_emoji"}
           /\ runs[r].log[i].res # "ok"
        \/ runs[r].log[i].msg \in EarlyExitMessages}

\* C14: after a terminal failure the run makes no call but notices to the
\* requester, and emoji.delete() is called only after a create_custom_emoji
\* of the same run has succeeded
C14_EarlyExitStops ==
    \A r \in Runs :
        /\ \A i \in TerminalFailures(r) :
              /\ \A j \in (i + 1)..Len(runs[r].log) : runs[r].log[j].op \in RequesterOps
              /\ runs[r].pc \in {"notify", "generic", "done", "raised"}
              /\ Calls(r, "emoji.delete") = {}
        /\ \A d \in Calls(r, "emoji.delete") :
              \E c \in Succeeded(r, "create_custom_emoji") : c < d

\* a run of callback whose image was resized has ended with the notice that
\* followed the refused creation
C14_Witness ==
    \E r \in Runs :
        /\ Ended(r)
        /\ \E i \in Calls(r, "create_custom_emoji") :
              /\ runs[r].log[i].res = "forbidden"
              /\ Len(runs[r].log) = i + 1
              /\ runs[r].log[i + 1].msg = "forbidden"
        /\ runs[r].image_data = "resized_128"

\* r registered an emoji and the platform refused q's registration of the
\* same name; both handlers are over
CollisionOver(r, q) ==
    /\ r # q
    /\ runs[r].sanitized_name = runs[q].sanitized_name
    /\ Succeeded(r, "create_custom_emoji") # {}
    /\ Failed(q, "create_custom_emoji") # {}
    /\ Ended(r)
    /\ Ended(q)

\* the run's next call after the refused registration is the notice
\* "Failed to create emoji" to its requester
RegistrationErrorReported(q) ==
    \A i \in Failed(q, "create_custom_emoji") :
        /\ Len(runs[q].log) > i
        /\ runs[q].log[i + 1].msg = "create_failed"
        /\ runs[q].log[i + 1].op \in RequesterOps

\* C15: when two interleaved runs proposed the same name and the platform
\* refused the second registration, that run reported the registration
\* error to its requester and, both runs being over, the guild holds no
\* emoji created by either
C15_CollisionRejectedAndCleaned ==
    \A r, q \in Runs :
        CollisionOver(r, q) =>
            /\ RegistrationErrorReported(q)
            /\ \A e \in guild_emojis : e.by \notin {r, q}

\* the half of C15 that holds: the refused run reports the registration
\* error and has created nothing
RefusedRunReports ==
    \A r, q \in Runs :
        CollisionOver(r, q) =>
            /\ RegistrationErrorReported(q)
            /\ \A e \in guild_emojis : e.by # q

\* an emoji of a run that is over is still in the guild only where
\* emoji.delete() was not called or did not succeed
RemainsOnlyWithoutDeletion ==
    \A r \in Runs :
        (Ended(r) /\ \E e \in guild_emojis : e.by = r) => Succeeded(r, "emoji.delete") = {}

\* the text channels where the bot may send
UsableTextChannels == {i \in 1..Len(channels.text_channels) : channels.text_channels[i]}

\* the channel the claim names for the guild's channels
ChannelByPriority ==
    IF channels.fixed = "send" THEN [kind |-> "fixed", index |-> 0]
    ELSE IF channels.current_send THEN [kind |-> "current", index |-> 0]
    ELSE IF UsableTextChannels # {}
    THEN [kind |-> "text",
          index |-> CHOOSE i \in UsableTextChannels : \A j \in UsableTextChannels : i <= j]
    ELSE NoChannel

\* the run has called get_response_channel: the defer succeeded and, in
\* callback, the selected file was found
ChannelResolved(r) ==
    /\ Succeeded(r, "response.defer") # {}
    /\ runs[r].msg # "not_found"
    /\ \A i \in 1..Len(runs[r].log) : runs[r].log[i].msg # "not_found"

SuccessPath(r) ==
    IF runs[r].kind = "generated"
    THEN <<"response.defer", "images.generate", "session.get", "create_custom_emoji",
           "add_reaction", "channel.send", "followup.send", "emoji.delete">>
    ELSE <<"is_done", "response.defer", "create_custom_emoji", "add_reaction",
           "channel.send", Via(r), "emoji.delete">>

\* nothing has failed in the run so far and no exit was taken
OnSuccessPath(r) ==
    /\ runs[r].pc \notin {"absent", "notify"}
    /\ \A i \in 1..Len(runs[r].log) :
          /\ runs[r].log[i].res \in {"ok", "false"}
          /\ runs[r].log[i].msg \in {"", "success"}

\* the reaction and announcement step is over: the confirmation was sent, or
\* the "Failed to react" notice was
StepFinished(r, d) ==
    \E i \in 1..(d - 1) :
        /\ runs[r].log[i].msg \in {"success", "react_failed"}
        /\ runs[r].log[i].res = "ok"

\* C17: the image is there before the registration is attempted (generated
\* and downloaded before it, in on_submit); the reaction is attempted only
\* after the registration succeeded; the deletion only after the reaction
\* and announcement step is over; and while nothing fails the calls are those
\* of the fixed order, all of them once the run has ended
C17_FixedOrder ==
    \A r \in Runs :
        /\ \A c \in Calls(r, "create_custom_emoji") :
              /\ runs[r].image_data # "none"
              /\ runs[r].kind = "generated" =>
                    \E g \in Succeeded(r, "images.generate") :
                        \E d \in Succeeded(r, "session.get") : g < d /\ d < c
        /\ \A a \in Calls(r, "add_reaction") :
              \E c \in Succeeded(r, "create_custom_emoji") : c < a
        /\ \A a \in Calls(r, "channel.send") :
              \E x \in Succeeded(r, "add_reaction") : x < a
        /\ \A d \in Calls(r, "emoji.delete") :
              /\ StepFinished(r, d)
              /\ \A i \in StepCalls(r) : i < d
        /\ OnSuccessPath(r) =>
              /\ Len(runs[r].log) <= Len(SuccessPath(r))
              /\ \A i \in 1..Len(runs[r].log) : runs[r].log[i].op = SuccessPath(r)[i]
              /\ Ended(r) => Len(runs[r].log) = Len(SuccessPath(r))

\* a run of on_submit in which nothing failed has ended, the image cropped
C17_Witness ==
    \E r \in Runs :
        /\ runs[r].kind = "generated"
        /\ OnSuccessPath(r)
        /\ Ended(r)
        /\ runs[r].image_data = "cropped_128"
        /\ Succeeded(r, "emoji.delete") # {}

\* the external operations of a run
ExternalOps == {"images.generate"} \cup LaterOps

\* C18: a run calls each external operation (image generation, download,
\* emoji creation, reaction, announcement, emoji deletion) at most once,
\* whatever the outcome of the call
C18_NoRetry ==
    \A r \in Runs : \A op \in ExternalOps : Cardinality(Calls(r, op)) <= 1

\* a run of on_submit has ended whose announcement failed: the failed call
\* was made once, and so were the generation and the deletion
C18_Witness ==
    \E r \in Runs :
        /\ Ended(r)
        /\ Cardinality(Failed(r, "channel.send")) = 1
        /\ Cardinality(Calls(r, "images.generate")) = 1
        /\ Cardinality(Calls(r, "emoji.delete")) = 1

\* the notices of the terminal errors
TerminalErrorMessages ==
    {"gen_timeout", "gen_failed", "no_url", "download_timeout", "download_failed",
     "download_status", "not_found", "read_failed", "forbidden", "create_failed",
     "no_channel"}

\* the terminal failures that are one of the known errors: not a creation
\* that raised something else than discord.HTTPException
TerminalErrors(r) ==
    {i \in TerminalFailures(r) :
        runs[r].log[i].op = "create_custom_emoji" => runs[r].log[i].res # "other"}

\* the positions from i on where the run sent the notice of a terminal error
ErrorNotices(r, i) ==
    {j \in i..Len(runs[r].log) :
        /\ runs[r].log[j].op \in RequesterOps
        /\ runs[r].log[j].msg \in TerminalErrorMessages}

\* C19 as stated: a run that has ended in a terminal error has delivered a
\* notice of the error to the requester
C19_AsStated ==
    \A r \in Runs : \A i \in TerminalErrors(r) :
        Ended(r) => \E j \in ErrorNotices(r, i) : runs[r].log[j].res = "ok"

\* C19, amended: a run that has ended in a terminal error has sent the
\* requester the notice of the error; the handler then returned, unless the
\* platform refused a notice: an exception that leaves the handler is that
\* of the refused notice, never the terminal error itself
C19_TerminalErrorReported ==
    \A r \in Runs : \A i \in TerminalErrors(r) :
        Ended(r) =>
            /\ ErrorNotices(r, i) # {}
            /\ (\A j \in ErrorNotices(r, i) : runs[r].log[j].res = "ok") =>
                  runs[r].pc = "done"
            /\ runs[r].pc = "raised" =>
                  /\ runs[r].log[Len(runs[r].log)].op \in RequesterOps
                  /\ runs[r].log[Len(runs[r].log)].res # "ok"

\* the download answered with a status other than 200 and the run ended
\* with the notice "Could not download image" delivered
C19_Witness ==
    \E r \in Runs : \E i \in TerminalErrors(r) :
        /\ runs[r].log[i] = Entry("session.get", "", "status")
        /\ runs[r].pc = "done"
        /\ Len(runs[r].log) = i + 1
        /\ runs[r].log[i + 1] = Entry("followup.send", "download_status", "ok")

\* the message of the call that follows position i in the run's log, "" when
\* there is none
NextMessage(r, i) == IF Len(runs[r].log) > i THEN runs[r].log[i + 1].msg ELSE ""

\* none of reaction, announcement and deletion was called
NothingAfterRegistration(r) ==
    \A op \in {"add_reaction", "channel.send", "emoji.delete"} : Calls(r, op) = {}

\* C20: a creation refused for lack of permission is followed by the
\* permission notice and never by the registration notice; a creation that
\* failed in any other way is followed by the registration notice; after
\* either, no reaction, announcement or deletion is called
C20_RegistrationFailuresDistinguished ==
    \A r \in Runs : \A i \in Calls(r, "create_custom_emoji") :
        /\ runs[r].log[i].res = "forbidden" =>
              /\ Ended(r) => NextMessage(r, i) = "forbidden"
              /\ \A j \in 1..Len(runs[r].log) : runs[r].log[j].msg # "create_failed"
        /\ runs[r].log[i].res \in {"http", "other"} =>
              (Ended(r) => NextMessage(r, i) = "create_failed")
        /\ runs[r].log[i].res # "ok" => NothingAfterRegistration(r)

\* what holds: the same for the failures the platform reports, which are
\* discord.HTTPException; a creation that raises anything else is followed
\* by no notice in on_submit and by the generic one in callback
PlatformRefusalsDistinguished ==
    \A r \in Runs : \A i \in Calls(r, "create_custom_emoji") :
        /\ runs[r].log[i].res = "forbidden" =>
              /\ Ended(r) => NextMessage(r, i) = "forbidden"
              /\ \A j \in 1..Len(runs[r].log) : runs[r].log[j].msg # "create_failed"
        /\ runs[r].log[i].res = "http" =>
              (Ended(r) => NextMessage(r, i) = "create_failed")
        /\ runs[r].log[i].res = "other" =>
              (Ended(r) => NextMessage(r, i) =
                              IF runs[r].kind = "generated" THEN "" ELSE "generic")
        /\ runs[r].log[i].res # "ok" => NothingAfterRegistration(r)

\* C21: in a run whose PIL block failed, image_data is the original bytes
\* (the download's in on_submit, the file's in callback) and the run went
\* on to the registration: create_custom_emoji is the run's next call
C21_NormalizeFailureNotTerminal ==
    \A r \in Runs :
        runs[r].normalize = "failed" =>
            /\ runs[r].image_data = OriginalBytes(runs[r].kind)
            /\ \/ runs[r].pc = "create"
               \/ \E c \in Calls(r, "create_custom_emoji") :
                     /\ runs[r].log[c - 1].op \in {"session.get", "response.defer"}
                     /\ runs[r].log[c - 1].res = "ok"

\* a run of callback whose resize failed has registered the file's bytes
C21_Witness ==
    \E r \in Runs :
        /\ runs[r].kind = "static"
        /\ runs[r].normalize = "failed"
        /\ runs[r].image_data = "file"
        /\ Succeeded(r, "create_custom_emoji") # {}

DownloadErrorMessages == {"download_status", "download_timeout", "download_failed"}

\* the run made no registration, reaction, announcement or deletion and did
\* not enter the PIL block
StoppedAtDownload(r) ==
    /\ \A op \in LaterOps \ {"session.get"} : Calls(r, op) = {}
    /\ runs[r].normalize = "none"
    /\ runs[r].image_data = "none"
    /\ ~runs[r].emoji

\* the run's call after the download is the notice of a download error
DownloadErrorSent(r) ==
    \A i \in Calls(r, "session.get") :
        /\ runs[r].log[i].res # "ok"
        /\ Ended(r) =>
              /\ Len(runs[r].log) > i
              /\ runs[r].log[i + 1].op = "followup.send"
              /\ runs[r].log[i + 1].msg \in DownloadErrorMessages

\* the run went on to the PIL block and the registration
ContinuedToNormalize(r) ==
    /\ Succeeded(r, "session.get") # {}
    /\ runs[r].normalize # "none"
    /\ runs[r].pc = "create" \/ Calls(r, "create_custom_emoji") # {}

Downloaded(r) == runs[r].kind = "generated" /\ Calls(r, "session.get") # {}

TimedOutDownload(r) ==
    \E i \in Calls(r, "session.get") : runs[r].log[i].res = "timeout"

\* C22 as stated: a response with a status outside 200..299 or the expiry of
\* the bound ends the run with a download error and nothing is registered,
\* reacted or deleted; a response with a status in 200..299 lets the run
\* continue to the PIL block
C22_AsStated ==
    \A r \in Runs :
        Downloaded(r) =>
            /\ (TimedOutDownload(r)
                  \/ (runs[r].status # NoStatus /\ runs[r].status \notin 200..299)) =>
                  (DownloadErrorSent(r) /\ StoppedAtDownload(r))
            /\ runs[r].status \in 200..299 => ContinuedToNormalize(r)

\* C22, amended: a response with a status other than 200 or the expiry of
\* the bound ends the run with a download error and nothing is registered,
\* reacted or deleted; a response with status 200 lets the run continue to
\* the PIL block
C22_DownloadErrorUnlessStatus200 ==
    \A r \in Runs :
        Downloaded(r) =>
            /\ (TimedOutDownload(r)
                  \/ (runs[r].status # NoStatus /\ runs[r].status # 200)) =>
                  (DownloadErrorSent(r) /\ StoppedAtDownload(r))
            /\ runs[r].status = 200 => ContinuedToNormalize(r)

\* the download was answered with 204 and the run ended with the notice
\* "Could not download image"
C22_Witness ==
    \E r \in Runs :
        /\ runs[r].status = 204
        /\ runs[r].pc = "done"
        /\ runs[r].log[Len(runs[r].log)] = Entry("followup.send", "download_status", "ok")

---------------------------------------------------------------------------
(* The asset listing across calls                                          *)

\* the folder a call lists when no earlier call has been made: the
\* configured one if it exists, else the first alternative that does
FreshFolder ==
    IF Exists("module_static") THEN "module_static"
    ELSE IF \E i \in 1..Len(alternative_paths) : Exists(alternative_paths[i])
    THEN alternative_paths[CHOOSE i \in 1..Len(alternative_paths) :
                              /\ Exists(alternative_paths[i])
                              /\ \A j \in 1..(i - 1) : ~Exists(alternative_paths[j])]
    ELSE NoFolder

\* what the folders as they are now give to a call that no call preceded
FreshListing ==
    IF FreshFolder = NoFolder THEN <<>> ELSE Listing(static_dirs[FreshFolder].entries)

\* C23: the result of every listing and of every search is the one the
\* folders, as they are at the time of the call, give to a first call:
\* no earlier call has left anything that changes it
C23_NoStateFromEarlierCalls ==
    /\ files_returned # Unknown => files_returned[1] = FreshListing
    /\ search_returned # Unknown =>
          search_returned[1].matches = SearchResult(FreshListing, search_returned[1].query)

\* what holds: the list of names is not kept between calls, the folder is;
\* every result is the live listing of the folder that STATIC_FOLDER names
\* after the call, or empty when that folder does not exist
LiveListingOfCurrentFolder ==
    LET live == IF Exists(STATIC_FOLDER) THEN Listing(EntriesNow) ELSE <<>>
    IN  /\ files_returned # Unknown => files_returned[1] = live
        /\ search_returned # Unknown =>
              search_returned[1].matches = SearchResult(live, search_returned[1].query)

---------------------------------------------------------------------------
(* The guild's emojis across runs                                          *)

\* the emojis of the guild that one of the runs created
CreatedByRuns == {e \in guild_emojis : e.by \in Runs}

\* no call of emoji.delete() has raised
NoDeletionFailed == \A r \in Runs : \A d \in Calls(r, "emoji.delete") : runs[r].log[d].res = "ok"

\* C24: every run creates at most one emoji, and once all runs have ended
\* without a deletion call having failed, the guild's emojis are those it
\* had before the runs
C24_BudgetRestored ==
    /\ \A r \in Runs : Cardinality(Succeeded(r, "create_custom_emoji")) <= 1
    /\ ((\A r \in Runs : Ended(r)) /\ NoDeletionFailed) => CreatedByRuns = {}

\* what holds: a run creates at most one emoji, at most one emoji of it is
\* in the guild, and the emojis the guild had before are all still there
AtMostOneEmojiPerRun ==
    /\ \A r \in Runs :
          /\ Cardinality(Succeeded(r, "create_custom_emoji")) <= 1
          /\ Cardinality({e \in guild_emojis : e.by = r}) <= 1
    /\ guild_emojis \ CreatedByRuns \in OldEmojis

---------------------------------------------------------------------------
(* Properties of the automatic command syncs                               *)

SyncedOnlyAfterSuccess ==
    \A g \in Guilds : g \in synced_guilds <=> sync_count[g] >= 1

\* what holds: a handler starts a sync of a guild only while the guild is
\* not in synced_guilds
SyncStartsUnsynced ==
    [][\A h \in Handlers :
          (handlers[h].pc # "sync" /\ handlers'[h].pc = "sync" /\ h # "setup_hook")
              => handlers'[h].guild \notin synced_guilds]_vars

---------------------------------------------------------------------------
(* Properties of the success confirmation                                  *)

\* the positions where the success confirmation is sent to the requester
Confirmations(r) ==
    {i \in 1..Len(runs[r].log) : runs[r].log[i].msg = "success"}

\* C26: the success confirmation is sent only in a run in which the emoji
\* registration, the reaction and the announcement to the channel were all
\* made before it, in that order, and none of them failed; and a run holds
\* both the confirmation and the "Failed to react" message only when the
\* sending of the confirmation itself failed
C26_ConfirmationOnlyAfterSuccess ==
    \A r \in Runs : \A i \in Confirmations(r) :
        /\ \E c \in Succeeded(r, "create_custom_emoji") :
           \E a \in Succeeded(r, "add_reaction") :
           \E s \in Succeeded(r, "channel.send") : c < a /\ a < s /\ s < i
        /\ Calls(r, "create_custom_emoji") = Succeeded(r, "create_custom_emoji")
        /\ Calls(r, "add_reaction") = Succeeded(r, "add_reaction")
        /\ Calls(r, "channel.send") = Succeeded(r, "channel.send")
        /\ \A j \in ReactFailedNotices(r) : runs[r].log[i].res = "http" /\ j = i + 1

\* a run in which the three steps succeeded, the confirmation was sent and
\* failed, and the "Failed to react" message followed it
C26_Witness ==
    \E r \in Runs : \E i \in Confirmations(r) :
        /\ runs[r].log[i].res = "http"
        /\ i + 1 \in ReactFailedNotices(r)
        /\ Succeeded(r, "add_reaction") # {}
        /\ Succeeded(r, "channel.send") # {}

\* a run in which the confirmation was sent and delivered has no "Failed to
\* react" message at all
DeliveredConfirmationIsFinal ==
    \A r \in Runs : \A i \in Confirmations(r) :
        runs[r].log[i].res = "ok" => ReactFailedNotices(r) = {}


=============================================================================
